---- MODULE Spec2Model ----
(***************************************************************************)
(* Model of scripts/gzip_web_files.py: the PlatformIO pre-action that      *)
(* walks data/, and writes <file>.gz next to every web file whose .gz is   *)
(* missing or not strictly newer than the file.                            *)
(*                                                                         *)
(* A file name is the sequence of its dot-separated segments:              *)
(*   "index.html" = <<"index","html">>, ".html" = <<"","html">>,           *)
(*   "index.html.gz" = <<"index","html","gz">>, "README" = <<"README">>.   *)
(* A path is [dir, name], dir being the sequence of the names of the       *)
(* directories from data/ down.  File contents are sequences of bytes.     *)
(***************************************************************************)
EXTENDS Integers, Sequences, FiniteSets, TLC

VARIABLES
    dataExists,       \* Path("data").exists()
    fs,               \* the tree under data/: path -> [kind, bytes, mtime]
    now,              \* the filesystem clock that stamps st_mtime on a write
    pc,               \* "idle" | "walk" | "done" | "raised"
    todo,             \* entries data_dir.rglob("*") has still to yield
    files_compressed, \* local of gzip_web_files
    total_saved,      \* local of gzip_web_files
    out,              \* lines printed by this run
    events,           \* number of clock ticks, edits and I/O errors so far
    fs0,              \* history: the tree when this run started
    writes,           \* history: artifacts completely written by this run
    raisedAt,         \* history: <<>> or <<[path, kind]>> of the error raised
    prevAbort,        \* history: <<>>, or <<p>> when the previous run died
                      \* writing the artifact of p and no source was
                      \* edited since
    editedSince       \* history: a source was edited since the last run

vars == <<dataExists, fs, now, pc, todo, files_compressed, total_saved, out,
          events, fs0, writes, raisedAt, prevAbort, editedSince>>

----------------------------------------------------------------------------
(* Bounds of the model *)

\* longest source content, a run of MaxLen equal bytes
MaxLen == 5
\* initial modification times are 0..MaxMtime
MaxMtime == 1
\* what the world does to a behaviour: clock ticks, edits of a source and
\* I/O errors, together
MaxEvents == 2
\* a failing write leaves at most MaxFailAt bytes of the stream on disk
MaxFailAt == 1

----------------------------------------------------------------------------
(* Paths *)

\* pathlib: PurePath.suffix. The text from the last dot of the name on, or
\* "" when there is no dot, the only dot leads the name, or the dot ends it.
\* The segment stands for "." followed by the segment.
Suffix(name) ==
    IF Len(name) >= 2 /\ name[Len(name)] # "" /\ ~(Len(name) = 2 /\ name[1] = "")
    THEN name[Len(name)]
    ELSE ""

\* pathlib: PurePath.with_suffix(s): the name without its suffix, plus s.
\* s is a sequence of segments (".html.gz" = <<"html","gz">>).
WithSuffix(name, s) ==
    IF Suffix(name) = "" THEN name \o s
    ELSE SubSeq(name, 1, Len(name) - 1) \o s

\* line 20
extensions == {"html", "css", "js", "json", "svg", "xml"}

\* line 27: file_path.suffix + ".gz", as segments ("" + ".gz" is ".gz")
SuffixPlusGz(suf) == IF suf = "" THEN <<"gz">> ELSE <<suf, "gz">>

\* line 27: file_path.with_suffix(file_path.suffix + ".gz")
GzPath(p) == [dir |-> p.dir, name |-> WithSuffix(p.name, SuffixPlusGz(Suffix(p.name)))]

Exists(tree, p) == p \in DOMAIN tree

IsFile(tree, p) == Exists(tree, p) /\ tree[p].kind = "file"

\* Eligible with the test of the extension left out
EligibleAnyFile(tree, p) == IsFile(tree, p)

\* Eligible with any segment of the name taken for its extension
EligibleAnySegment(tree, p) ==
    IsFile(tree, p) /\ \E i \in 2..Len(p.name) : p.name[i] \in extensions

\* line 26: file_path.is_file() and file_path.suffix in extensions
Eligible(tree, p) == IsFile(tree, p) /\ Suffix(p.name) \in extensions

----------------------------------------------------------------------------
(* gzip: a one-byte magic header, the run-length coded payload as           *)
(* <<count, byte>> pairs, and a trailer holding the length of the input.    *)

Repeat(b, n) == [i \in 1..n |-> b]

RECURSIVE RunAt(_, _)
\* the length of the run of equal bytes that starts at c[i]
RunAt(c, i) ==
    IF i < Len(c) /\ c[i + 1] = c[i] THEN 1 + RunAt(c, i + 1) ELSE 1

RECURSIVE Deflate(_)
Deflate(c) ==
    IF c = <<>> THEN <<>>
    ELSE LET n == RunAt(c, 1)
         IN  <<n, c[1]>> \o Deflate(SubSeq(c, n + 1, Len(c)))

GzHeader == <<31>>

\* Gzip with the trailer left out
GzipNoTrailer(c) == GzHeader \o Deflate(c)

\* lines 36-37: what gzip.open(gz_path, 'wb', compresslevel=9) holds once
\* copyfileobj has copied c and the file is closed
Gzip(c) == GzHeader \o Deflate(c) \o <<Len(c)>>

RECURSIVE Inflate(_)
Inflate(b) ==
    IF b = <<>> THEN [ok |-> TRUE, data |-> <<>>]
    ELSE IF Len(b) < 2 \/ b[1] < 1 THEN [ok |-> FALSE, data |-> <<>>]
    ELSE LET rest == Inflate(SubSeq(b, 3, Len(b)))
         IN  [ok |-> rest.ok, data |-> Repeat(b[2], b[1]) \o rest.data]

\* gzip.decompress: the content, or not ok for a stream that is truncated
\* or otherwise not a gzip stream
Gunzip(b) ==
    IF Len(b) < 2 \/ SubSeq(b, 1, 1) # GzHeader THEN [ok |-> FALSE, data |-> <<>>]
    ELSE LET r == Inflate(SubSeq(b, 2, Len(b) - 1))
         IN  IF r.ok /\ Len(r.data) = b[Len(b)] THEN r
             ELSE [ok |-> FALSE, data |-> <<>>]

----------------------------------------------------------------------------
(* Reporting *)

\* format spec ".0f": the nearest integer to num/den (den > 0), ties to even
RoundHalfEven(num, den) ==
    LET q == num \div den
        r == num % den
    IN  IF 2 * r < den THEN q
        ELSE IF 2 * r > den THEN q + 1
        ELSE IF q % 2 = 0 THEN q ELSE q + 1

\* Percent without the guard of line 44
PercentUnguarded(saved, original_size) ==
    IF original_size # 0
    THEN [ok |-> TRUE, val |-> RoundHalfEven(saved * 100, original_size)]
    ELSE [ok |-> FALSE, val |-> 0]

\* line 44, as printed by line 45; not ok stands for ZeroDivisionError
Percent(saved, original_size) ==
    IF original_size > 0
    THEN [ok |-> TRUE, val |-> RoundHalfEven(saved * 100, original_size)]
    ELSE [ok |-> TRUE, val |-> 0]

\* line 16
WarnLine == [kind |-> "warning"]
\* line 45
FileLine(p, original_size, compressed_size, percent) ==
    [kind |-> "file", name |-> p.name, original |-> original_size,
     compressed |-> compressed_size, percent |-> percent]
\* line 48
SummaryLine(n, saved) == [kind |-> "summary", files |-> n, saved |-> saved]
\* line 50
AllCurrentLine == [kind |-> "all_current"]

----------------------------------------------------------------------------
(* The tree under data/ *)

File(bytes, t) == [kind |-> "file", bytes |-> bytes, mtime |-> t]
Dir(t) == [kind |-> "dir", bytes |-> <<>>, mtime |-> t]

EmptyTree == [p \in {} |-> Dir(0)]

\* open(..., 'wb') and the writes that follow: p holds bytes, stamped t
WriteFile(tree, p, bytes, t) ==
    [q \in DOMAIN tree \cup {p} |-> IF q = p THEN File(bytes, t) ELSE tree[q]]

\* IsCurrent with the test of line 30 left out
IsCurrentNever(tree, p) == FALSE

\* IsCurrent with >= for the > of line 30
IsCurrentOrEqual(tree, p) ==
    Exists(tree, GzPath(p)) /\ tree[GzPath(p)].mtime >= tree[p].mtime

\* line 30: gz_path.exists() and gz_path.stat().st_mtime > file_path.stat().st_mtime
IsCurrent(tree, p) ==
    Exists(tree, GzPath(p)) /\ tree[GzPath(p)].mtime > tree[p].mtime

\* Saved with the subtraction the other way round
SavedReversed(original_size, compressed_size) == compressed_size - original_size

\* line 40
Saved(original_size, compressed_size) == original_size - compressed_size

\* PcAfterError had the loop caught the error and gone on
PcAfterErrorSwallowed == "walk"

\* lines 35-37 sit in no try block: an OSError leaves gzip_web_files
PcAfterError == "raised"

\* DataDirMissing with the test of line 15 left out
DataDirNeverMissing == FALSE

\* line 15
DataDirMissing == ~dataExists

----------------------------------------------------------------------------
(* Initial trees *)

Contents == {<<>>, Repeat(0, MaxLen)}
Mtimes == 0..MaxMtime

IndexHtml == [dir |-> <<>>, name |-> <<"index", "html">>]
LibJs == [dir |-> <<>>, name |-> <<"lib", "js">>]
AppJs == [dir |-> << <<"lib", "js">> >>, name |-> <<"app", "js">>]
StyleCss == [dir |-> <<>>, name |-> <<"style", "css">>]

\* names whose suffix is not of the set: another extension, a leading dot
\* only, an extension in capitals
OtherNames == {<<"notes", "txt">>, <<"", "html">>, <<"page", "HTML">>}

Others == [p \in {[dir |-> <<>>, name |-> n] : n \in OtherNames} |-> File(<<1>>, 0)]

OneOf(p, entries) == {EmptyTree} \cup {p :> e : e \in entries}

\* data/ holds index.html or not, with an artifact or not; the directory
\* lib.js with app.js in it, with a current artifact or none; style.css;
\* and the files of OtherNames
InitTrees ==
    { a @@ ag @@ (LibJs :> Dir(0)) @@ b @@ bg @@ c @@ Others :
        a  \in OneOf(IndexHtml, {File(x, t) : x \in Contents, t \in Mtimes}),
        ag \in OneOf(GzPath(IndexHtml),
                     {File(Gzip(Repeat(0, MaxLen)), t) : t \in Mtimes}),
        b  \in {AppJs :> File(Repeat(0, MaxLen), 0)},
        bg \in OneOf(GzPath(AppJs), {File(Gzip(Repeat(0, MaxLen)), MaxMtime)}),
        c  \in {StyleCss :> File(<<1, 0>>, 0)} }

RECURSIVE SetToSeq(_)
SetToSeq(S) ==
    IF S = {} THEN <<>>
    ELSE LET x == CHOOSE y \in S : TRUE IN <<x>> \o SetToSeq(S \ {x})

Reverse(q) == [i \in 1..Len(q) |-> q[Len(q) + 1 - i]]

\* line 25: the orders in which data_dir.rglob("*") may yield the entries of
\* the tree. The order of a directory listing is the file system's; the model
\* takes one listing of the tree and its reverse, which puts every two
\* entries in both orders.
WalkOrders(tree) == {SetToSeq(DOMAIN tree), Reverse(SetToSeq(DOMAIN tree))}

\* the entries this run has been through
visited == DOMAIN fs0 \ {todo[i] : i \in 1..Len(todo)}

Init ==
    /\ dataExists \in BOOLEAN
    /\ fs \in IF dataExists THEN InitTrees ELSE {EmptyTree}
    /\ now = MaxMtime
    /\ pc = "idle"
    /\ todo = <<>>
    /\ files_compressed = 0
    /\ total_saved = 0
    /\ out = <<>>
    /\ events = 0
    /\ fs0 = fs
    /\ writes = {}
    /\ raisedAt = <<>>
    /\ prevAbort = <<>>
    /\ editedSince = FALSE

----------------------------------------------------------------------------
(* Actions *)

\* The build tool calls the registered pre-action (lines 53-54); lines 11-25.
Invoke ==
    /\ pc \in {"idle", "done", "raised"}
    /\ prevAbort' = IF raisedAt # <<>> /\ raisedAt[1].kind = "write" /\ ~editedSince
                    THEN <<raisedAt[1].path>> ELSE <<>>
    /\ editedSince' = FALSE
    /\ fs0' = fs
    /\ writes' = {}
    /\ raisedAt' = <<>>
    /\ files_compressed' = 0
    /\ total_saved' = 0
    /\ IF DataDirMissing
       THEN out' = <<WarnLine>> /\ pc' = "done" /\ todo' = <<>>
       ELSE out' = <<>> /\ pc' = "walk" /\ todo' \in WalkOrders(fs)
    /\ UNCHANGED <<dataExists, fs, now, events>>

\* rglob lists a directory before it yields the entries of it, and gz_path
\* lies in the directory of file_path: what a run creates it never yields.
\* lines 25-26: rglob yields an entry that is no regular file or has no
\* extension of the set
VisitIgnore ==
    /\ pc = "walk" /\ todo # <<>>
    /\ ~Eligible(fs, Head(todo))
    /\ todo' = Tail(todo)
    /\ UNCHANGED <<dataExists, fs, now, pc, files_compressed, total_saved, out,
                   events, fs0, writes, raisedAt, prevAbort, editedSince>>

\* lines 25-31: the artifact is newer than the source
VisitSkip ==
    /\ pc = "walk" /\ todo # <<>>
    /\ Eligible(fs, Head(todo))
    /\ IsCurrent(fs, Head(todo))
    /\ todo' = Tail(todo)
    /\ UNCHANGED <<dataExists, fs, now, pc, files_compressed, total_saved, out,
                   events, fs0, writes, raisedAt, prevAbort, editedSince>>

\* lines 25-45: the artifact is written and reported
VisitCompress ==
    /\ pc = "walk" /\ todo # <<>>
    /\ Eligible(fs, Head(todo))
    /\ ~IsCurrent(fs, Head(todo))
    /\ ~(Exists(fs, GzPath(Head(todo))) /\ fs[GzPath(Head(todo))].kind = "dir")
    /\ LET file_path == Head(todo)
           gz_path == GzPath(file_path)
           original_size == Len(fs[file_path].bytes)
           written == WriteFile(fs, gz_path, Gzip(fs[file_path].bytes), now)
           compressed_size == Len(written[gz_path].bytes)
           saved == Saved(original_size, compressed_size)
           percent == Percent(saved, original_size)
       IN  /\ todo' = Tail(todo)
           /\ fs' = written
           /\ writes' = writes \cup {[src |-> file_path, dst |-> gz_path,
                                       original |-> original_size,
                                       compressed |-> compressed_size]}
           /\ total_saved' = total_saved + saved
           /\ files_compressed' = files_compressed + 1
           /\ IF percent.ok
              THEN /\ out' = Append(out, FileLine(file_path, original_size,
                                                  compressed_size, percent.val))
                   /\ UNCHANGED <<pc, raisedAt>>
              ELSE /\ pc' = PcAfterError
                   /\ raisedAt' = <<[path |-> file_path, kind |-> "arith"]>>
                   /\ UNCHANGED out
    /\ UNCHANGED <<dataExists, now, events, fs0, prevAbort, editedSince>>

\* line 35: open(file_path, 'rb') fails
VisitReadFail ==
    /\ pc = "walk" /\ todo # <<>>
    /\ Eligible(fs, Head(todo))
    /\ ~IsCurrent(fs, Head(todo))
    /\ todo' = Tail(todo)
    /\ events < MaxEvents
    /\ events' = events + 1
    /\ pc' = PcAfterError
    /\ raisedAt' = <<[path |-> Head(todo), kind |-> "read"]>>
    /\ UNCHANGED <<dataExists, fs, now, files_compressed, total_saved, out,
                   fs0, writes, prevAbort, editedSince>>

\* line 36: gzip.open(gz_path, 'wb') fails before the artifact is created
\* or truncated
VisitOpenFail ==
    /\ pc = "walk" /\ todo # <<>>
    /\ Eligible(fs, Head(todo))
    /\ ~IsCurrent(fs, Head(todo))
    /\ todo' = Tail(todo)
    /\ events < MaxEvents
    /\ events' = events + 1
    /\ pc' = PcAfterError
    /\ raisedAt' = <<[path |-> Head(todo), kind |-> "open"]>>
    /\ UNCHANGED <<dataExists, fs, now, files_compressed, total_saved, out,
                   fs0, writes, prevAbort, editedSince>>

\* lines 36-37: a write fails after k bytes of the stream reached the disk
VisitWriteFail(k) ==
    /\ pc = "walk" /\ todo # <<>>
    /\ Eligible(fs, Head(todo))
    /\ ~IsCurrent(fs, Head(todo))
    /\ ~(Exists(fs, GzPath(Head(todo))) /\ fs[GzPath(Head(todo))].kind = "dir")
    /\ k < Len(Gzip(fs[Head(todo)].bytes))
    /\ todo' = Tail(todo)
    /\ fs' = WriteFile(fs, GzPath(Head(todo)),
                       SubSeq(Gzip(fs[Head(todo)].bytes), 1, k), now)
    /\ events < MaxEvents
    /\ events' = events + 1
    /\ pc' = PcAfterError
    /\ raisedAt' = <<[path |-> Head(todo), kind |-> "write"]>>
    /\ UNCHANGED <<dataExists, now, files_compressed, total_saved, out,
                   fs0, writes, prevAbort, editedSince>>

\* lines 47-50: rglob is exhausted
Finish ==
    /\ pc = "walk" /\ todo = <<>>
    /\ pc' = "done"
    /\ out' = Append(out, IF files_compressed > 0
                          THEN SummaryLine(files_compressed, total_saved)
                          ELSE AllCurrentLine)
    /\ UNCHANGED <<dataExists, fs, now, todo, files_compressed, total_saved,
                   events, fs0, writes, raisedAt, prevAbort, editedSince>>

\* An author saves a source between two builds.
EditSource(p, c) ==
    /\ pc \in {"done", "raised"}
    /\ events < MaxEvents
    /\ Eligible(fs, p)
    /\ c # fs[p].bytes
    /\ fs' = WriteFile(fs, p, c, now)
    /\ events' = events + 1
    /\ editedSince' = TRUE
    /\ pc' = "idle"
    /\ UNCHANGED <<dataExists, now, todo, files_compressed, total_saved, out,
                   fs0, writes, raisedAt, prevAbort>>

\* Time passes between two builds.
Tick ==
    /\ pc # "walk"
    /\ events < MaxEvents
    /\ events' = events + 1
    /\ now' = now + 1
    /\ UNCHANGED <<dataExists, fs, pc, todo, files_compressed, total_saved,
                   out, fs0, writes, raisedAt, prevAbort, editedSince>>

Next ==
    \/ Invoke
    \/ VisitIgnore
    \/ VisitSkip
    \/ VisitCompress
    \/ VisitReadFail
    \/ VisitOpenFail
    \/ \E k \in 0..MaxFailAt : VisitWriteFail(k)
    \/ Finish
    \/ \E p \in DOMAIN fs : \E c \in Contents : EditSource(p, c)
    \/ Tick

Spec == Init /\ [][Next]_vars

----------------------------------------------------------------------------
(* The vocabulary of the claims, stated on the tree alone *)

AllowSet == {"html", "css", "js", "json", "svg", "xml"}

\* p is a regular file whose extension is in the allow-set
IsSource(tree, p) ==
    p \in DOMAIN tree /\ tree[p].kind = "file" /\ Suffix(p.name) \in AllowSet

Sources(tree) == {p \in DOMAIN tree : IsSource(tree, p)}

\* the artifact path of p: the path of p plus ".gz"
ArtifactOf(p) == [dir |-> p.dir, name |-> p.name \o <<"gz">>]

\* the artifact of p exists with a modification time strictly after p's
Newer(tree, p) ==
    ArtifactOf(p) \in DOMAIN tree /\ tree[ArtifactOf(p)].mtime > tree[p].mtime

\* the artifact of p exists and decompresses to the bytes of p
RoundTrips(tree, p) ==
    /\ ArtifactOf(p) \in DOMAIN tree
    /\ tree[ArtifactOf(p)].kind = "file"
    /\ Gunzip(tree[ArtifactOf(p)].bytes).ok
    /\ Gunzip(tree[ArtifactOf(p)].bytes).data = tree[p].bytes

\* q is in both trees with the same bytes and times, or in neither
Same(before, after, q) ==
    IF q \in DOMAIN before
    THEN q \in DOMAIN after /\ before[q] = after[q]
    ELSE q \notin DOMAIN after

\* q was created, removed or rewritten
Touched(before, after, q) == ~Same(before, after, q)

InRun == pc \in {"walk", "done", "raised"}

WrittenSources == {w.src : w \in writes}

FileLines == {out[i] : i \in {j \in 1..Len(out) : out[j].kind = "file"}}

RECURSIVE SumSaved(_)
SumSaved(S) ==
    IF S = {} THEN 0
    ELSE LET w == CHOOSE x \in S : TRUE
         IN  (w.original - w.compressed) + SumSaved(S \ {w})

Abs(x) == IF x < 0 THEN -x ELSE x

----------------------------------------------------------------------------
(* C1 *)

\* C1 as stated: once a run over an existing data directory has completed,
\* every regular file with an extension of the allow-set has an artifact
\* that decompresses to the bytes of the file.
C1_EveryArtifactRoundTrips ==
    (pc = "done" /\ dataExists) => \A p \in Sources(fs) : RoundTrips(fs, p)

\* C1, amended: once a run over an existing data directory has completed,
\* every regular file with an extension of the allow-set has an artifact;
\* the artifact decompresses to the bytes of the file when it was missing or
\* not strictly newer than the file at the start of the run, and is the
\* artifact that was there before, untouched, when it was strictly newer.
C1_WrittenArtifactRoundTrips ==
    (pc = "done" /\ dataExists) =>
        \A p \in Sources(fs) :
            /\ ArtifactOf(p) \in DOMAIN fs
            /\ IF Newer(fs0, p)
               THEN fs[ArtifactOf(p)] = fs0[ArtifactOf(p)]
               ELSE RoundTrips(fs, p)

\* a completed run that wrote the artifact of one file and kept a newer
\* artifact, which does not decompress to its file, of another
C1_Witness ==
    /\ pc = "done" /\ dataExists
    /\ \E p \in Sources(fs) : ~Newer(fs0, p) /\ RoundTrips(fs, p)
                              /\ Touched(fs0, fs, ArtifactOf(p))
    /\ \E p \in Sources(fs) : Newer(fs0, p) /\ ~RoundTrips(fs, p)

----------------------------------------------------------------------------
(* C2 *)

\* C2: a file whose artifact is strictly newer than it when the run visits
\* it is skipped: the artifact keeps its bytes and its modification time,
\* and the file is neither reported nor counted as compressed.
C2_IdempotentSkip ==
    InRun =>
        LET seen == {p \in visited : IsSource(fs0, p)}
        IN  /\ \A p \in seen :
                  Newer(fs0, p) =>
                      /\ ArtifactOf(p) \in DOMAIN fs
                      /\ fs[ArtifactOf(p)] = fs0[ArtifactOf(p)]
                      /\ p \notin WrittenSources
                      /\ \A l \in FileLines : l.name # p.name
            /\ files_compressed <= Cardinality({p \in seen : ~Newer(fs0, p)})

\* a completed run that skipped one file and compressed another
C2_Witness ==
    /\ pc = "done"
    /\ \E p \in visited \cap Sources(fs0) : Newer(fs0, p)
    /\ files_compressed = 1

----------------------------------------------------------------------------
(* C3 *)

\* C3: a file whose artifact is missing or not strictly newer than it
\* (older, or of the same modification time) when the run visits it has its
\* artifact overwritten with the compression of its bytes, unless the run
\* dies on that file.
C3_Regeneration ==
    InRun =>
        \A p \in {q \in visited : IsSource(fs0, q)} :
            (~Newer(fs0, p) /\ (raisedAt = <<>> \/ raisedAt[1].path # p)) =>
                /\ ArtifactOf(p) \in DOMAIN fs
                /\ fs[ArtifactOf(p)].kind = "file"
                /\ fs[ArtifactOf(p)].bytes = Gzip(fs[p].bytes)
                /\ fs[ArtifactOf(p)].mtime >= fs[p].mtime
                /\ p \in WrittenSources

\* a source edited after its artifact was written, and regenerated by the
\* next run, beside a file whose artifact was as old as the file
C3_Witness ==
    /\ pc = "done"
    /\ \E p \in visited \cap Sources(fs0) :
          /\ ArtifactOf(p) \in DOMAIN fs0
          /\ fs0[p].mtime > MaxMtime
          /\ fs0[p].mtime > fs0[ArtifactOf(p)].mtime
          /\ ~RoundTrips(fs0, p)
          /\ RoundTrips(fs, p)
    /\ \E p \in visited \cap Sources(fs0) :
          /\ ArtifactOf(p) \in DOMAIN fs0
          /\ fs0[p].mtime = fs0[ArtifactOf(p)].mtime
          /\ p \in WrittenSources

----------------------------------------------------------------------------
(* C4 *)

\* C4 as stated: a run creates, overwrites or modifies no file whose
\* extension is outside the allow-set.
C4_NoFileOutsideAllowSetTouched ==
    InRun =>
        \A q \in DOMAIN fs \cup DOMAIN fs0 :
            Suffix(q.name) \notin AllowSet => ~Touched(fs0, fs, q)

\* C4, amended: the only files a run creates, overwrites or modifies are
\* the artifacts <path>.gz of the regular files with an extension of the
\* allow-set that it has visited; a file with another extension is never
\* compressed, and is touched only if it is such an artifact.
C4_OnlyArtifactsOfSourcesTouched ==
    InRun =>
        LET written == {ArtifactOf(p) : p \in {q \in visited : IsSource(fs0, q)}}
        IN  \A q \in DOMAIN fs \cup DOMAIN fs0 :
                Touched(fs0, fs, q) => q \in written

\* a completed run that wrote an artifact and went past a regular file
\* with another extension, which is no artifact
C4_Witness ==
    /\ pc = "done"
    /\ \E q \in DOMAIN fs : Touched(fs0, fs, q)
    /\ \E q \in visited :
          /\ fs0[q].kind = "file"
          /\ Suffix(q.name) \notin AllowSet
          /\ Suffix(q.name) # "gz"
          /\ ~Touched(fs0, fs, q)

----------------------------------------------------------------------------
(* C5 *)

\* C5: when data/ does not exist the call returns normally, having printed
\* the warning and nothing else, and no file exists afterwards.
C5_MissingDataDir ==
    (~dataExists /\ InRun) =>
        /\ pc = "done"
        /\ raisedAt = <<>>
        /\ out = <<WarnLine>>
        /\ fs = EmptyTree
        /\ fs = fs0

\* the call has returned with data/ missing
C5_Witness == ~dataExists /\ pc = "done" /\ out = <<WarnLine>>

----------------------------------------------------------------------------
(* C6 *)

\* C6: once reading a source or writing an artifact has failed, the run is
\* over with the error: no entry after the failing one is processed, no
\* summary is printed, the artifacts the run wrote before are on disk as
\* written, and a write that failed leaves its truncated artifact behind.
C6_FailureAborts ==
    raisedAt # <<>> =>
        /\ pc \in {"raised", "idle"}
        /\ \A i \in 1..Len(out) : out[i].kind = "file"
        /\ \A w \in writes :
              /\ w.dst \in DOMAIN fs
              /\ fs[w.dst].bytes = Gzip(fs0[w.src].bytes)
        /\ \A i \in 1..Len(todo) :
              /\ todo[i] \notin WrittenSources
              /\ Same(fs0, fs, ArtifactOf(todo[i]))
        /\ raisedAt[1].kind = "write" =>
              /\ ArtifactOf(raisedAt[1].path) \in DOMAIN fs
              /\ ~Gunzip(fs[ArtifactOf(raisedAt[1].path)].bytes).ok

\* a write failed after the run had written another artifact and before it
\* came to a file whose artifact is missing
C6_Witness ==
    /\ pc = "raised"
    /\ raisedAt[1].kind = "write"
    /\ writes # {}
    /\ \E i \in 1..Len(todo) :
          IsSource(fs0, todo[i]) /\ ArtifactOf(todo[i]) \notin DOMAIN fs

----------------------------------------------------------------------------
(* C7 *)

\* C7: the last line of a completed run is the summary, with the number of
\* artifacts the run wrote and the sum of (original size - compressed
\* size) over them, when it wrote one at least, and the "all already
\* compressed" line exactly when it wrote none.
C7_SummaryAccounting ==
    (pc = "done" /\ dataExists) =>
        /\ \A w \in writes :
              /\ w.original = Len(fs[w.src].bytes)
              /\ w.compressed = Len(fs[w.dst].bytes)
        /\ Cardinality(FileLines) = Cardinality(writes)
        /\ out[Len(out)] = IF writes # {}
                           THEN SummaryLine(Cardinality(writes), SumSaved(writes))
                           ELSE AllCurrentLine

\* a completed run that wrote three artifacts, some smaller and some
\* larger than their sources
C7_Witness ==
    /\ pc = "done"
    /\ Cardinality(writes) = 3
    /\ \E w \in writes : w.original > w.compressed
    /\ \E w \in writes : w.original < w.compressed

----------------------------------------------------------------------------
(* C8 *)

\* C8: the percentage printed for a compressed file is
\* (original - compressed) / original * 100 to the nearest integer when
\* the original size is positive and 0 when it is 0, and compressing a
\* zero-byte source raises no arithmetic error.
C8_ZeroSizeGuard ==
    InRun =>
        /\ \A l \in FileLines :
              IF l.original > 0
              THEN 2 * Abs(l.percent * l.original
                           - 100 * (l.original - l.compressed)) <= l.original
              ELSE l.percent = 0
        /\ \A w \in writes :
              \E l \in FileLines :
                  /\ l.name = w.src.name
                  /\ l.original = Len(fs0[w.src].bytes)
                  /\ l.compressed = Len(fs[w.dst].bytes)
        /\ raisedAt # <<>> => raisedAt[1].kind # "arith"

\* a zero-byte source was compressed and reported with 0, beside a source
\* reported with a percentage that is not 0
C8_Witness ==
    /\ \E l \in FileLines : l.original = 0 /\ l.percent = 0 /\ l.compressed > 0
    /\ \E l \in FileLines : l.original > 0 /\ l.percent < 0
    /\ \E l \in FileLines : l.original > 0 /\ l.percent > 0
    /\ \E p \in Sources(fs) : fs[p].bytes = <<>> /\ RoundTrips(fs, p)

----------------------------------------------------------------------------
(* C9 *)

\* C9: when the previous run died in the middle of writing an artifact, no
\* source was edited since, and every other artifact that is newer than its
\* file decompresses to it, a run that completes leaves every regular file
\* with an extension of the allow-set with an artifact that decompresses to
\* the file.
C9_RerunRecovers ==
    (/\ pc = "done"
     /\ prevAbort # <<>>
     /\ \A q \in Sources(fs0) :
           (q # prevAbort[1] /\ Newer(fs0, q)) => RoundTrips(fs0, q))
    => \A p \in Sources(fs) : RoundTrips(fs, p)

----------------------------------------------------------------------------
(* C10 *)

\* C10: every write of a run goes to the path of a visited regular file
\* with an extension of the allow-set plus ".gz", two such files never
\* share an artifact path, no file is written twice in a run, no artifact
\* of an artifact is created, and the run leaves the set of such files as
\* it found it.
C10_ArtifactsAreNeverSources ==
    InRun =>
        LET sources == Sources(fs0)
            artifacts == {ArtifactOf(p) : p \in sources}
        IN  /\ \A w \in writes :
                  /\ w.src \in visited
                  /\ w.src \in sources
                  /\ w.dst = ArtifactOf(w.src)
            /\ \A v, w \in writes : v.dst = w.dst => v.src = w.src
            /\ files_compressed = Cardinality(writes)
            /\ files_compressed = Cardinality(WrittenSources)
            /\ \A q \in DOMAIN fs \cup DOMAIN fs0 :
                  q \notin artifacts => Same(fs0, fs, q)
            /\ \A q \in DOMAIN fs :
                  ~(Len(q.name) >= 2 /\ q.name[Len(q.name)] = "gz"
                                     /\ q.name[Len(q.name) - 1] = "gz")
            /\ Sources(fs) = sources

\* a completed run that walked over an artifact which was in the tree, and
\* wrote the artifacts of two files
C10_Witness ==
    /\ pc = "done"
    /\ Cardinality(writes) >= 2
    /\ \E p \in Sources(fs0) : ArtifactOf(p) \in visited

====
